---- MODULE Spec2Model ----
(***************************************************************************)
(* A model of the retrieval core of panda-etl:                             *)
(*   backend/app/vectorstore/chroma.py  (class ChromaDB)                   *)
(*   backend/app/config.py              (class Settings, settings)         *)
(*                                                                         *)
(* Python values are modelled as follows.                                  *)
(*   None            None       == [some |-> FALSE]                        *)
(*   a given value   Some(v)    == [some |-> TRUE, val |-> v]              *)
(*   a list          a sequence (Python index i is TLA+ index i + 1)       *)
(*   a float         an integer number of tenths (1.5 is 15)               *)
(*   a metadata dict {"topic": v} is the string v; an absent metadata is   *)
(*                   the string "none"                                     *)
(*   ids             caller-chosen ids are positive integers, generated    *)
(*                   "<uuid4>-docs" ids are negative integers              *)
(***************************************************************************)
EXTENDS Integers, Sequences, FiniteSets, TLC

VARIABLES
    records,      \* the backend collection: a set of [id, text, meta]
    uuidCount,    \* how many uuid4 values have been drawn so far
    ncalls,       \* how many operations have been called so far
    budget,       \* how many operations are called in this run
    pend,         \* per caller: the locals of a delete_docs call between its two backend calls
    last,         \* the invocation that returned or raised last: arguments, backend calls, result
    store,        \* the ChromaDB object's fields (and whether __init__ ended)
    cargs,        \* the arguments __init__ was called with
    fraw,         \* argument `documents` of _filter_docs_based_on_distance
    fthr,         \* argument `threshold` of _filter_docs_based_on_distance
    fout,         \* its return value
    fpc           \* "input" before the call, "returned" after it

vars == <<records, uuidCount, ncalls, budget, pend, last, store, cargs, fraw, fthr, fout, fpc>>

----------------------------------------------------------------------------
(* Bounds of the model *)

MaxLen == 3        \* longest raw query result handed to the filter alone
MaxUuid == 1       \* at most this many ids are generated in a run
MaxDocs == 2       \* longest docs / ids / metadatas argument of add_docs
MaxCalls == 2      \* operations called in a run by one caller
MaxK == 2          \* largest k a caller passes to get_relevant_docs

(* Program constants *)

MaxSamples == 3            \* max_samples: int = 3
SimilarityThreshold == 15  \* similary_threshold = 1.5, in tenths

----------------------------------------------------------------------------
(* Python values *)

None == [some |-> FALSE]
Some(v) == [some |-> TRUE, val |-> v]

Min(a, b) == IF a <= b THEN a ELSE b

Range(s) == {s[i] : i \in DOMAIN s}

SeqsUpTo(S, n) == UNION {[1..m -> S] : m \in 0..n}

\* truthiness of an Optional[int]: None and 0 are falsy
TruthyInt(x) == x.some /\ x.val # 0

\* truthiness of an Optional[str]: None and "" are falsy
TruthyStr(x) == x.some /\ x.val # ""

Texts == {"t1", "t2"}
Topics == {"x", "y"}
DistVals == {3, 15, 20}
QueryDistVals == {3, 15}
Thresholds == {SimilarityThreshold, 20}

----------------------------------------------------------------------------
(* _filter_docs_based_on_distance *)

\* zip(a, b, c, d): tuples up to the shortest argument
Zip4(a, b, c, d) ==
    [i \in 1..Min(Min(Len(a), Len(b)), Min(Len(c), Len(d))) |-> <<a[i], b[i], c[i], d[i]>>]

KeepLe(doc, distance, metadata, ids, threshold) == distance <= threshold

\* the comprehension's condition: if distance < threshold
Keep(doc, distance, metadata, ids, threshold) == distance < threshold

RECURSIVE FilteredData(_, _)
FilteredData(zipped, threshold) ==
    IF zipped = <<>> THEN <<>>
    ELSE LET t == Head(zipped)
             rest == FilteredData(Tail(zipped), threshold)
         IN  IF Keep(t[1], t[2], t[3], t[4], threshold) THEN <<t>> \o rest ELSE rest

Column(filtered_data, i) == [n \in 1..Len(filtered_data) |-> filtered_data[n][i]]

FilterDocsBasedOnDistance(documents, threshold) ==
    LET filtered_data ==
            FilteredData(Zip4(documents.documents[1], documents.distances[1],
                              documents.metadatas[1], documents.ids[1]), threshold)
    IN  [documents |-> <<Column(filtered_data, 1)>>,
         distances |-> <<Column(filtered_data, 2)>>,
         metadatas |-> <<Column(filtered_data, 3)>>,
         ids       |-> <<Column(filtered_data, 4)>>]

EmptyResult == [documents |-> <<<<>>>>, distances |-> <<<<>>>>,
                metadatas |-> <<<<>>>>, ids |-> <<<<>>>>]

----------------------------------------------------------------------------
(* app.config: class Settings / settings = Settings() *)

\* the fields class Settings declares
AppSettings == [sqlalchemy_database_url |-> "sqlite", upload_dir |-> "uploads"]

\* attribute access on a settings object: None stands for AttributeError
GetAttr(obj, name) == IF name \in DOMAIN obj THEN Some(obj[name]) ELSE None

----------------------------------------------------------------------------
(* ChromaDB.__init__ *)

Paths == {"/a", "/b"}
PathArgs == {None, Some(""), Some("/a"), Some("/c")}
ClientSettingsArgs == {None} \cup {Some([persist_directory |-> d]) : d \in Paths}

\* lines 35-52: the persist_directory of _client_settings; None when the
\* attribute lookup on settings raises
ResolvePersistDirectory(client_settings, persist_path) ==
    IF client_settings.some
    THEN IF TruthyStr(persist_path)
         THEN Some(persist_path.val)
         ELSE Some(client_settings.val.persist_directory)
    ELSE IF TruthyStr(persist_path)
         THEN Some(persist_path.val)
         ELSE GetAttr(AppSettings, "chromadb_url")

NewStore == [state |-> "new", error |-> "none", max_samples |-> 0,
             similarity_threshold |-> 0, persist_directory |-> ""]

\* the object __init__ leaves behind; backend_ok: chromadb.Client and
\* get_or_create_collection (lines 55, 60) did not raise
InitStore(a, backend_ok) ==
    LET dir == ResolvePersistDirectory(a.client_settings, a.persist_path)
        base == [NewStore EXCEPT !.max_samples = a.max_samples,
                                 !.similarity_threshold = a.similary_threshold]
    IN  IF ~dir.some
        THEN [base EXCEPT !.state = "raised", !.error = "AttributeError"]
        ELSE IF ~backend_ok
        THEN [base EXCEPT !.state = "raised", !.error = "BackendError"]
        ELSE [base EXCEPT !.state = "constructed", !.persist_directory = dir.val]

CtorArgs == [client_settings : ClientSettingsArgs, persist_path : PathArgs,
             max_samples : {1, MaxSamples}, similary_threshold : Thresholds]

\* the store the operations below run on: ChromaDB(persist_path="/a")
DefaultArgs == [client_settings |-> None, persist_path |-> Some("/a"),
                max_samples |-> MaxSamples, similary_threshold |-> SimilarityThreshold]

----------------------------------------------------------------------------
(* The vector collection backend (self._docs_collection).  Every call is    *)
(* atomic and may raise; an outcome is [ok, recs, val]: whether the call    *)
(* returned, the collection after it, and the value it returned.            *)

CallerIds == {1, 2}
GenId(n) == 0 - n
Callers == {1, 2}

IdsOf(recs) == {r.id : r \in recs}

Failure(recs) == [ok |-> FALSE, recs |-> recs, val |-> <<>>]

Injective(s) == \A i, j \in DOMAIN s : s[i] = s[j] => i = j

\* collection.add(documents, metadatas, ids): ids stay unique in the
\* collection; lists of unequal length are not covered by the interface, a
\* backend either raises or stores the tuples zip() yields
BackendAdd(recs, documents, metadatas, ids) ==
    LET n == IF metadatas.some
             THEN Min(Min(Len(documents), Len(ids)), Len(metadatas.val))
             ELSE Min(Len(documents), Len(ids))
        new == {[id |-> ids[i], text |-> documents[i],
                 meta |-> IF metadatas.some THEN metadatas.val[i] ELSE "none"] : i \in 1..n}
    IN  {Failure(recs)} \cup
        IF Injective(ids) /\ Range(ids) \cap IdsOf(recs) = {}
        THEN {[ok |-> TRUE, recs |-> recs \cup new, val |-> <<>>]}
        ELSE {}

RECURSIVE SortById(_)
SortById(S) ==
    IF S = {} THEN <<>>
    ELSE LET m == CHOOSE r \in S : \A q \in S : r.id <= q.id
         IN  <<m>> \o SortById(S \ {m})

Matches(r, where) == r.meta = where

\* collection.get(where): the records whose metadata matches
BackendGet(recs, where) ==
    {Failure(recs),
     [ok |-> TRUE, recs |-> recs, val |-> SortById({r \in recs : Matches(r, where)})]}

\* collection.delete(ids): removes the records with these ids; with ids=None
\* (and no where) a backend raises, deletes nothing, or deletes everything
BackendDelete(recs, ids) ==
    {Failure(recs)} \cup
    IF ids.some
    THEN {[ok |-> TRUE, recs |-> {r \in recs : r.id \notin Range(ids.val)}, val |-> <<>>]}
    ELSE {[ok |-> TRUE, recs |-> recs, val |-> <<>>],
          [ok |-> TRUE, recs |-> {}, val |-> <<>>]}

\* the orders in which a backend may return the n records nearest to the
\* question, closest first (ties in any order); d[text] is the distance
RECURSIVE Nearest(_, _, _)
Nearest(recs, d, n) ==
    IF n <= 0 \/ recs = {} THEN {<<>>}
    ELSE UNION {{<<r>> \o s : s \in Nearest(recs \ {r}, d, n - 1)} :
                r \in {q \in recs : \A m \in recs : d[q.text] <= d[m.text]}}

RawResult(cands, d) ==
    [documents |-> <<[i \in 1..Len(cands) |-> cands[i].text]>>,
     distances |-> <<[i \in 1..Len(cands) |-> d[cands[i].text]]>>,
     metadatas |-> <<[i \in 1..Len(cands) |-> cands[i].meta]>>,
     ids       |-> <<[i \in 1..Len(cands) |-> cands[i].id]>>]

\* collection.query(query_texts, n_results, include)
BackendQuery(recs, d, n_results) ==
    {Failure(recs)} \cup
    {[ok |-> TRUE, recs |-> recs, val |-> RawResult(s, d)] : s \in Nearest(recs, d, n_results)}

----------------------------------------------------------------------------
(* Invocations *)

Raised == [tag |-> "raised", val |-> "BackendError"]

Pend0 == [pc |-> "idle", calls |-> <<>>, criteria |-> "", ids |-> <<>>]

Last0 == [name |-> "none", caller |-> 0, calls |-> <<>>, ret |-> [tag |-> "pending"],
          ids_given |-> FALSE, shape_ok |-> TRUE, criteria |-> None, ids |-> <<>>,
          removed |-> {}, after_removed |-> {}, changed |-> FALSE,
          k |-> None, requested |-> 0, raw |-> EmptyResult]

Call(fn, ok) == [fn |-> fn, ok |-> ok]

\* caller c is not inside a call, and the run may go on
Free(c) == pend[c].pc = "idle" /\ ncalls < budget

----------------------------------------------------------------------------
(* add_docs *)

\* the documents callers add: the second has the first's text, the third
\* the first's id
Catalogue == << [text |-> "t1", id |-> 1, meta |-> "x"],
                [text |-> "t1", id |-> 2, meta |-> "y"],
                [text |-> "t2", id |-> 1, meta |-> "y"] >>

\* batches of up to MaxDocs documents
Batches ==
    {SubSeq(Catalogue, i, j) : i \in 1..Len(Catalogue), j \in 0..Len(Catalogue)}
    \cap SeqsUpTo(Range(Catalogue), MaxDocs)

Field(b, f) == [i \in 1..Len(b) |-> b[i][f]]

\* a list without its last element
Short(full) == SubSeq(full, 1, Len(full) - 1)

\* the ids and metadatas passed with a batch: each absent or the batch's
\* field, or one of them a list that is one element short
AddArgs(b) ==
    LET ids == Field(b, "id")
        metas == Field(b, "meta")
    IN  ({None, Some(ids)} \X {None, Some(metas)})
        \cup (IF b = <<>> THEN {}
              ELSE {<<Some(Short(ids)), Some(metas)>>, <<Some(Short(ids)), None>>,
                    <<Some(ids), Some(Short(metas))>>, <<None, Some(Short(metas))>>})

\* lines 81-82: the caller's ids, else one "<uuid4>-docs" per document
AddDocsIds(docs, ids, drawn) ==
    IF ids.some THEN ids.val ELSE [i \in 1..Len(docs) |-> GenId(drawn + i)]

\* the function ends after the backend call without a return statement
AddDocsReturn(ids) == [tag |-> "None"]

ShapeOk(docs, ids, metadatas) ==
    /\ ids.some => Len(ids.val) = Len(docs)
    /\ metadatas.some => Len(metadatas.val) = Len(docs)

AddDocs(c) ==
    /\ Free(c)
    /\ \E b \in Batches :
       \E args \in AddArgs(b) :
         LET docs == Field(b, "text")
             ids == args[1]
             metadatas == args[2]
             final_ids == AddDocsIds(docs, ids, uuidCount)
             drawn == IF ids.some THEN 0 ELSE Len(docs)
         IN  /\ uuidCount + drawn <= MaxUuid
             /\ \E out \in BackendAdd(records, docs, metadatas, final_ids) :
                  /\ records' = out.recs
                  /\ uuidCount' = uuidCount + drawn
                  /\ last' = [Last0 EXCEPT !.name = "add_docs", !.caller = c,
                                           !.calls = <<Call("add", out.ok)>>,
                                           !.ret = IF out.ok THEN AddDocsReturn(final_ids)
                                                   ELSE Raised,
                                           !.ids_given = ids.some,
                                           !.shape_ok = ShapeOk(docs, ids, metadatas),
                                           !.ids = final_ids,
                                           !.changed = (out.recs # records)]
    /\ ncalls' = ncalls + 1
    /\ UNCHANGED <<budget, pend, store, cargs, fraw, fthr, fout, fpc>>

----------------------------------------------------------------------------
(* delete_docs *)

CriteriaArgs == {None} \cup {Some(t) : t \in Topics}
IdArgs == {None, Some(<<>>), Some(<<1>>), Some(<<2>>), Some(<<1, 2>>)}

\* a comprehension that misses the last record
ResolveIdsButLast(records_to_delete) ==
    [i \in 1..(Len(records_to_delete) - 1) |-> records_to_delete[i].id]

\* line 105: ids = [record["id"] for record in records_to_delete]
ResolveIds(records_to_delete) ==
    [i \in 1..Len(records_to_delete) |-> records_to_delete[i].id]

\* a deletion that does not pass the ids on
DeleteArgNone(ids) == None

\* line 107: the ids argument of collection.delete
DeleteArg(ids) == ids

\* line 108
DeleteDocsReturn == [tag |-> "True"]

\* delete_docs with ids given, or with neither ids nor criteria: the branch
\* at line 103 is not taken
DeleteDocsDirect(c) ==
    /\ Free(c)
    /\ \E ids \in IdArgs, metadata_criteria \in CriteriaArgs :
         /\ ids.some \/ ~metadata_criteria.some
         /\ \E out \in BackendDelete(records, DeleteArg(ids)) :
              /\ records' = out.recs
              /\ last' = [Last0 EXCEPT !.name = "delete_docs", !.caller = c,
                                       !.calls = <<Call("delete", out.ok)>>,
                                       !.ret = IF out.ok THEN DeleteDocsReturn ELSE Raised,
                                       !.ids_given = ids.some,
                                       !.criteria = metadata_criteria,
                                       !.ids = IF ids.some THEN ids.val ELSE <<>>,
                                       !.removed = records \ out.recs,
                                       !.changed = (out.recs # records)]
    /\ ncalls' = ncalls + 1
    /\ UNCHANGED <<uuidCount, budget, pend, store, cargs, fraw, fthr, fout, fpc>>

\* the lookup returned: line 105, and on to line 107
LookupReturned(c, metadata_criteria, out) ==
    /\ pend' = [pend EXCEPT ![c] = [pc |-> "lookup_done",
                                    calls |-> <<Call("get", out.ok)>>,
                                    criteria |-> metadata_criteria.val,
                                    ids |-> ResolveIds(out.val)]]
    /\ last' = last

\* the lookup raised: delete_docs raises with it
LookupRaised(c, metadata_criteria, out) ==
    /\ pend' = pend
    /\ last' = [Last0 EXCEPT !.name = "delete_docs", !.caller = c,
                             !.calls = <<Call("get", out.ok)>>,
                             !.ret = Raised,
                             !.criteria = metadata_criteria]

\* a lookup failure that is swallowed: the call goes on to the deletion
AfterLookupSwallowed(c, metadata_criteria, out) == LookupReturned(c, metadata_criteria, out)

\* line 104: what follows collection.get
AfterLookup(c, metadata_criteria, out) ==
    IF out.ok THEN LookupReturned(c, metadata_criteria, out)
    ELSE LookupRaised(c, metadata_criteria, out)

\* delete_docs(ids=None, metadata_criteria=c), lines 103-105: the lookup
DeleteDocsLookup(c) ==
    /\ Free(c)
    /\ \E metadata_criteria \in CriteriaArgs :
         /\ metadata_criteria.some
         /\ \E out \in BackendGet(records, metadata_criteria.val) :
              AfterLookup(c, metadata_criteria, out)
    /\ ncalls' = ncalls + 1
    /\ UNCHANGED <<records, uuidCount, budget, store, cargs, fraw, fthr, fout, fpc>>

\* delete_docs(ids=None, metadata_criteria=c), lines 107-108: the deletion
DeleteDocsDelete(c) ==
    /\ pend[c].pc = "lookup_done"
    /\ \E out \in BackendDelete(records, DeleteArg(Some(pend[c].ids))) :
         /\ records' = out.recs
         /\ last' = [Last0 EXCEPT !.name = "delete_docs", !.caller = c,
                                  !.calls = pend[c].calls \o <<Call("delete", out.ok)>>,
                                  !.ret = IF out.ok THEN DeleteDocsReturn ELSE Raised,
                                  !.criteria = Some(pend[c].criteria),
                                  !.ids = pend[c].ids,
                                  !.removed = records \ out.recs,
                                  !.changed = (out.recs # records)]
    /\ pend' = [pend EXCEPT ![c] = Pend0]
    /\ UNCHANGED <<uuidCount, ncalls, budget, store, cargs, fraw, fthr, fout, fpc>>

----------------------------------------------------------------------------
(* get_relevant_docs, get_relevant_docs_documents *)

KArgs == {None} \cup {Some(n) : n \in 0..MaxK}

\* line 114: k = k or self._max_samples
EffectiveK(k, max_samples) == IF TruthyInt(k) THEN k.val ELSE max_samples

\* is `last` a criteria deletion by c that returned True
CriteriaDeleted(c) ==
    /\ last.name = "delete_docs" /\ last.caller = c /\ last.ret.tag = "True"
    /\ ~last.ids_given /\ last.criteria.some

\* the records removed by the criteria deletion this call directly follows
JustRemoved(c) == IF CriteriaDeleted(c) THEN last.removed ELSE {}

WholeResult(result) == [tag |-> "result", val |-> result]

\* a projection that keeps the batch nesting
DocumentsNested(result) == [tag |-> "docs", val |-> result.documents]

\* line 132: ...["documents"][0]
DocumentsOnly(result) == [tag |-> "docs", val |-> result.documents[1]]

\* what each of the two query methods returns of the filtered result
Project(name, result) ==
    IF name = "get_relevant_docs" THEN WholeResult(result) ELSE DocumentsOnly(result)

\* lines 116-124
Query(c, name) ==
    /\ Free(c)
    /\ \E k \in KArgs, d \in [Texts -> QueryDistVals] :
         LET n_results == EffectiveK(k, store.max_samples)
         IN  \E out \in BackendQuery(records, d, n_results) :
                last' = [Last0 EXCEPT !.name = name, !.caller = c,
                                      !.calls = <<Call("query", out.ok)>>,
                                      !.ret = IF out.ok
                                              THEN Project(name, FilterDocsBasedOnDistance(
                                                       out.val, store.similarity_threshold))
                                              ELSE Raised,
                                      !.after_removed = JustRemoved(c),
                                      !.k = k,
                                      !.requested = n_results,
                                      !.raw = IF out.ok THEN out.val ELSE EmptyResult]
    /\ ncalls' = ncalls + 1
    /\ UNCHANGED <<records, uuidCount, budget, pend, store, cargs, fraw, fthr, fout, fpc>>

GetRelevantDocs(c) == Query(c, "get_relevant_docs")

GetRelevantDocsDocuments(c) == Query(c, "get_relevant_docs_documents")

----------------------------------------------------------------------------
(* Specifications *)

\* _filter_docs_based_on_distance applied to one raw query result
Candidates == [doc : Texts, distance : DistVals, tag : {<<"x", 1>>, <<"y", 2>>}]

RawOf(s) ==
    [documents |-> <<[i \in 1..Len(s) |-> s[i].doc]>>,
     distances |-> <<[i \in 1..Len(s) |-> s[i].distance]>>,
     metadatas |-> <<[i \in 1..Len(s) |-> s[i].tag[1]]>>,
     ids       |-> <<[i \in 1..Len(s) |-> s[i].tag[2]]>>]

Idle == /\ records = {}
        /\ uuidCount = 0
        /\ ncalls = 0
        /\ budget = 0
        /\ pend = [c \in Callers |-> Pend0]
        /\ last = Last0

NoFilter == fraw = EmptyResult /\ fthr = 0 /\ fout = EmptyResult /\ fpc = "input"

InitFilter ==
    /\ Idle
    /\ store = InitStore(DefaultArgs, TRUE)
    /\ cargs = DefaultArgs
    /\ fraw \in {RawOf(s) : s \in SeqsUpTo(Candidates, MaxLen)}
    /\ fthr \in Thresholds
    /\ fout = EmptyResult
    /\ fpc = "input"

Filter ==
    /\ fpc = "input"
    /\ fout' = FilterDocsBasedOnDistance(fraw, fthr)
    /\ fpc' = "returned"
    /\ UNCHANGED <<records, uuidCount, ncalls, budget, pend, last, store, cargs, fraw, fthr>>

SpecFilter == InitFilter /\ [][Filter]_vars

\* ChromaDB.__init__
InitCtor ==
    /\ Idle
    /\ NoFilter
    /\ store = NewStore
    /\ cargs \in CtorArgs

Construct ==
    /\ store.state = "new"
    /\ \E backend_ok \in BOOLEAN : store' = InitStore(cargs, backend_ok)
    /\ UNCHANGED <<records, uuidCount, ncalls, budget, pend, last, cargs, fraw, fthr, fout, fpc>>

SpecCtor == InitCtor /\ [][Construct]_vars

\* the collections a store is bound to by get_or_create_collection: ids
\* are unique
Collections == {S \in SUBSET Range(Catalogue) : \A r, q \in S : r.id = q.id => r = q}

\* a constructed store, bound to a collection, before a run of calls
Constructed(calls) ==
    /\ records \in Collections
    /\ uuidCount = 0
    /\ ncalls = 0
    /\ budget = calls
    /\ pend = [c \in Callers |-> Pend0]
    /\ last = Last0
    /\ NoFilter
    /\ store = InitStore(DefaultArgs, TRUE)
    /\ cargs = DefaultArgs

Init == Constructed(MaxCalls)

Step(c) ==
    \/ AddDocs(c)
    \/ DeleteDocsDirect(c)
    \/ DeleteDocsLookup(c)
    \/ DeleteDocsDelete(c)
    \/ GetRelevantDocs(c)
    \/ GetRelevantDocsDocuments(c)

\* one caller at a time
Next == Step(1)

Spec == Init /\ [][Next]_vars

\* concurrent callers adding and deleting; the lookup and the deletion of a
\* criteria deletion are separate backend calls, and either caller may be
\* between them.  add_docs and a deletion by ids are one backend call and
\* leave nothing behind in their caller, so they are taken by caller 2 alone
NextConc ==
    \/ AddDocs(2)
    \/ DeleteDocsDirect(2)
    \/ \E c \in Callers : DeleteDocsLookup(c)
    \/ \E c \in Callers : DeleteDocsDelete(c)

\* one call more than a single caller's run
InitConc == Constructed(MaxCalls + 1)

SpecConc == InitConc /\ [][NextConc]_vars

----------------------------------------------------------------------------
(* Properties *)

IsQuery == last.name \in {"get_relevant_docs", "get_relevant_docs_documents"}

AllCallsOk == \A i \in DOMAIN last.calls : last.calls[i].ok

IsCriteriaDelete == last.name = "delete_docs" /\ ~last.ids_given /\ last.criteria.some

\* the indices a filter with threshold t retains, in increasing order: the
\* n-th is the index below t that has n - 1 such indices before it
Retained(dist, t) ==
    LET below == {i \in DOMAIN dist : dist[i] < t}
    IN  [n \in 1..Cardinality(below) |->
            CHOOSE i \in below : Cardinality({j \in below : j < i}) = n - 1]

Pick(field, idx) == <<[n \in DOMAIN idx |-> field[1][idx[n]]]>>

\* C1: _filter_docs_based_on_distance returns exactly the tuples at the
\* indices i with distances[i] < threshold (equal is excluded), in their
\* original order, the four fields trimmed at the same indices, each wrapped
\* as a single-element list
C1_FilterExact ==
    fpc = "returned" =>
        LET idx == Retained(fraw.distances[1], fthr)
        IN  fout = [documents |-> Pick(fraw.documents, idx),
                    distances |-> Pick(fraw.distances, idx),
                    metadatas |-> Pick(fraw.metadatas, idx),
                    ids       |-> Pick(fraw.ids, idx)]

\* a three-candidate result whose middle distance equals the threshold was
\* filtered down to its first and last candidate
C1_Witness ==
    /\ fpc = "returned"
    /\ Len(fraw.distances[1]) = 3
    /\ fraw.distances[1][2] = fthr
    /\ fraw.ids[1] = <<1, 2, 2>>
    /\ fout.ids = <<<<1, 2>>>>
    /\ fout.documents = <<<<fraw.documents[1][1], fraw.documents[1][3]>>>>

\* C2: add_docs returns the list of ids under which the documents were
\* stored, which is the id list passed to the backend's add
C2_ReturnsIds ==
    (last.name = "add_docs" /\ AllCallsOk) =>
        (last.ret.tag = "list" /\ last.ret.val = last.ids)

\* C3: delete_docs with neither ids nor criteria makes no deleting backend
\* call, leaves the records unchanged and does not return true
C3_RejectsEmptyCriteria ==
    (last.name = "delete_docs" /\ ~last.ids_given /\ ~last.criteria.some) =>
        /\ \A i \in DOMAIN last.calls : last.calls[i].fn # "delete"
        /\ ~last.changed
        /\ last.ret.tag # "True"

\* C4: add_docs with lists of unequal lengths fails, and the records are the
\* same after the failed call as before it
C4_RejectsMismatch ==
    (last.name = "add_docs" /\ ~last.shape_ok) =>
        (last.ret.tag = "raised" /\ ~last.changed)

Returned ==
    IF last.ret.tag = "result" THEN last.ret.val.documents[1]
    ELSE IF last.ret.tag = "docs" THEN last.ret.val
    ELSE <<>>

ReturnedIds == IF last.ret.tag = "result" THEN last.ret.val.ids[1] ELSE <<>>

\* a criteria deletion whose backend calls succeeded looked up the matching
\* ids, removed exactly the matching records and returned True
C5_DeletesMatching ==
    (IsCriteriaDelete /\ AllCallsOk) =>
        /\ last.calls = <<Call("get", TRUE), Call("delete", TRUE)>>
        /\ last.ret.tag = "True"
        /\ \A r \in last.removed : Matches(r, last.criteria.val)
        /\ \A r \in records : ~Matches(r, last.criteria.val)

\* C5 as stated: with a single caller a criteria deletion removes exactly
\* the matching records and returns True, and no later get_relevant_docs
\* returns the text of a removed record
C5_Original ==
    /\ C5_DeletesMatching
    /\ IsQuery =>
         \A i \in DOMAIN Returned : \A r \in last.after_removed : Returned[i] # r.text

\* C5 amended: with a single caller a criteria deletion removes exactly the
\* matching records and returns True, and a get_relevant_docs that follows
\* it returns no removed record: no removed id, and a removed record's text
\* only when a record that remains holds the same text
C5_Amended ==
    /\ C5_DeletesMatching
    /\ (IsQuery /\ last.after_removed # {}) =>
         /\ \A i \in DOMAIN ReturnedIds : ReturnedIds[i] \notin IdsOf(last.after_removed)
         /\ \A i \in DOMAIN Returned : \E r \in records : r.text = Returned[i]

\* a query directly after a criteria deletion that removed a record and
\* kept another returned a record
C5_Witness ==
    /\ last.name = "get_relevant_docs"
    /\ last.after_removed # {}
    /\ ReturnedIds # <<>>

\* the k the caller asked for: max_samples stands in only when k is omitted
AskedK == IF last.k.some THEN last.k.val ELSE store.max_samples

\* C6: the number of candidates requested from the backend and the number
\* returned never exceed the k the caller requested, a k of 0 included
C6_AtMostK ==
    (IsQuery /\ AllCallsOk) =>
        /\ last.requested <= AskedK
        /\ Len(last.raw.ids[1]) <= AskedK
        /\ Len(Returned) <= AskedK

\* C7: the persistence location is client_settings' persist_directory,
\* overridden by persist_path when also given; otherwise persist_path when
\* given; otherwise the configured default location; in each case
\* construction ends with a defined location
C7_LocationResolved ==
    (store.state # "new" /\ store.error # "BackendError") =>
        /\ store.state = "constructed"
        /\ store.persist_directory # ""
        /\ TruthyStr(cargs.persist_path) => store.persist_directory = cargs.persist_path.val
        /\ (cargs.client_settings.some /\ ~TruthyStr(cargs.persist_path)) =>
              store.persist_directory = cargs.client_settings.val.persist_directory

\* C8: a query whose backend call returned no candidate, or only candidates
\* at distance >= threshold, is not an error: get_relevant_docs returns four
\* single-element lists holding an empty list, get_relevant_docs_documents
\* an empty sequence
C8_EmptyIsValid ==
    (/\ IsQuery
     /\ AllCallsOk
     /\ \A i \in DOMAIN last.raw.distances[1] :
            last.raw.distances[1][i] >= store.similarity_threshold) =>
        /\ last.name = "get_relevant_docs" => last.ret = [tag |-> "result", val |-> EmptyResult]
        /\ last.name = "get_relevant_docs_documents" => last.ret = [tag |-> "docs", val |-> <<>>]

\* get_relevant_docs_documents got candidates, all at the threshold or
\* beyond, and returned the empty sequence
C8_Witness ==
    /\ last.name = "get_relevant_docs_documents"
    /\ AllCallsOk
    /\ Len(last.raw.distances[1]) >= 2
    /\ \A i \in DOMAIN last.raw.distances[1] :
           last.raw.distances[1][i] >= store.similarity_threshold
    /\ last.ret.tag = "docs"
    /\ last.ret.val = <<>>

\* C9: an operation issues at most one backend call, a criteria deletion
\* one lookup and then one deletion; a failed backend call is the
\* operation's last one and the operation raises (delete_docs does not
\* return True, a failed lookup is not followed by a deletion)
C9_OneRoundTrip ==
    /\ \/ Len(last.calls) <= 1
       \/ IsCriteriaDelete /\ Len(last.calls) = 2
             /\ last.calls[1].fn = "get" /\ last.calls[2].fn = "delete"
    /\ \A i \in DOMAIN last.calls :
          ~last.calls[i].ok => (i = Len(last.calls) /\ last.ret.tag = "raised")
    /\ \A c \in Callers : \A i \in DOMAIN pend[c].calls : pend[c].calls[i].ok

\* a criteria deletion whose lookup returned and whose deletion failed
C9_Witness ==
    /\ IsCriteriaDelete
    /\ last.calls = <<Call("get", TRUE), Call("delete", FALSE)>>
    /\ last.ret.tag = "raised"

\* C10 as stated: under any interleaving a criteria deletion never removes
\* a record whose metadata does not match the criteria when it is removed
C10_Original ==
    IsCriteriaDelete => \A r \in last.removed : Matches(r, last.criteria.val)

\* C10 amended: under any interleaving a criteria deletion removes only
\* records whose id the lookup resolved
C10_Amended ==
    IsCriteriaDelete => \A r \in last.removed : r.id \in Range(last.ids)

\* a criteria deletion removed a record that was added under a resolved id,
\* with other metadata, after the lookup
C10_Witness ==
    /\ IsCriteriaDelete
    /\ \E r \in last.removed : r.id \in Range(last.ids) /\ ~Matches(r, last.criteria.val)

====
